---- MODULE Spec2Model ----
(***************************************************************************)
(* The dashboard client cache (frontend/src/hooks/useDashboard.ts) and the *)
(* activity store it talks to.                                              *)
(*                                                                         *)
(* The hook is modelled as React runs it: every event handler and every    *)
(* promise continuation is one atomic step (state updates made in one      *)
(* continuation are batched and rendered together), and the closures of    *)
(* the callbacks see the state of the latest render.  A request is in      *)
(* flight from the step that issues it to the step in which its            *)
(* continuation runs; in between the server handles it ("sent" -> "ok" or  *)
(* "err"), unless it fails in transport.  Nothing orders the handling or   *)
(* the delivery of two requests in flight.                                 *)
(* The mount effect runs once: its dependencies are stable callbacks.      *)
(*                                                                         *)
(* The backend is not part of the sources at hand; the store is modelled   *)
(* from sections 4.1-4.3 of the specification for a single caller.         *)
(*                                                                         *)
(* The parts of the application (the hook, the session, ...) are modelled  *)
(* side by side; each specification runs one of them and leaves the        *)
(* others at rest.                                                         *)
(***************************************************************************)
EXTENDS Integers, Sequences, FiniteSets, TLC

\* ------------------------------------------------------------------ bounds

\* DEFAULT_LIMIT is 10 in the source (useDashboard.ts:59).  The page size is
\* scaled down so that empty, short and full pages and a second page all
\* occur with a store of a few records.
DEFAULT_LIMIT == 2

\* The store holds 0..MaxInitial records of the caller when the hook mounts.
MaxInitial == 3

\* The number of calls (refreshData, loadMore, createActivity, deleteActivity)
\* made on the hook in one behaviour, after the mount effect.
MaxCalls == 2

\* The number of requests of one kind (list, stats) in flight at once.
MaxInFlight == 2

\* ------------------------------------------------------------------ values

\* string | null and T | null of the source: None is null, Some(x) a value.
None == <<>>
Some(x) == <<x>>

Min(a, b) == IF a <= b THEN a ELSE b

RECURSIVE Filter(_, _)
\* prev.data.filter((activity) => activity.id !== id)
Filter(s, id) ==
    IF s = <<>> THEN <<>>
    ELSE IF Head(s) = id THEN Filter(Tail(s), id)
         ELSE <<Head(s)>> \o Filter(Tail(s), id)

Range(s) == {s[i] : i \in 1..Len(s)}

\* The message of a call that failed in transport (err.message).
ErrMsg == "Failed to fetch"

\* The detail of the server's 404.
NotFoundMsg == "Activity not found"

VARIABLES
    activitiesState,   \* {data, loading, error}; data is the list of record ids
    statsState,        \* {data, loading, error}; data is Some(summary) or None
    pagination,        \* {limit, offset, hasMore}
    mounted,           \* the mount effect has run
    listReqs,          \* getActivities calls in flight
    statsReqs,         \* getActivityStats calls in flight
    createReqs,        \* apiCreateActivity calls in flight
    deleteReqs,        \* apiDeleteActivity calls in flight
    refreshCalls,      \* refreshData calls whose Promise.all has not settled
    nextList,          \* number of list requests issued so far
    nextStats,         \* number of stats requests issued so far
    nextMut,           \* number of create/delete requests issued so far
    calls,             \* number of calls made on the hook after the mount
    store,             \* the caller's records on the server, most recent first
    nextId,            \* the next identifier the server assigns
    lastList,          \* history: the list response applied last
    lastStats,         \* history: the stats response applied last
    lastResult         \* history: what the create/delete call that ended last returned

vars == <<activitiesState, statsState, pagination, mounted, listReqs, statsReqs,
          createReqs, deleteReqs, refreshCalls, nextList, nextStats, nextMut,
          calls, store, nextId, lastList, lastStats, lastResult>>


\* ------------------------------------------------------------ the server

\* list_by_owner: skip `offset` records, return at most `limit`, most recent first.
ListPage(s, limit, offset) == SubSeq(s, offset + 1, Min(offset + limit, Len(s)))

\* compute_stats, as far as the hook's callers here read it: total_count.
ComputeStats(s) == [total_count |-> Len(s)]

\* ------------------------------------------------- the hook's transitions

\* setActivitiesState/setStatsState((prev) => ({...prev, loading: true, error: null}))
FetchStart(prev) == [prev EXCEPT !.loading = TRUE, !.error = None]

\* A success branch that appends whatever the offset.
ListSuccessStateAppending(prev, offset, data) ==
    [data |-> prev.data \o data, loading |-> FALSE, error |-> None]

\* fetchActivities, success: the list after a page arrived.
ListSuccessState(prev, offset, data) ==
    [data    |-> IF offset = 0 THEN data ELSE prev.data \o data,
     loading |-> FALSE,
     error   |-> None]

\* A cursor whose hasMore is "the page was not empty".
ListSuccessPaginationNonEmpty(limit, offset, data) ==
    [limit |-> limit, offset |-> offset, hasMore |-> (Len(data) > 0)]

\* fetchActivities, success: the cursor after a page arrived.
ListSuccessPagination(limit, offset, data) ==
    [limit |-> limit, offset |-> offset, hasMore |-> (Len(data) = limit)]

\* A catch branch that leaves the loading flag as it was.
FetchFailureStateStillLoading(prev, msg) == [prev EXCEPT !.error = Some(msg)]

\* fetchActivities / fetchStats, catch.
FetchFailureState(prev, msg) == [prev EXCEPT !.loading = FALSE, !.error = Some(msg)]

\* fetchStats, success.
StatsSuccessState(data) == [data |-> Some(data), loading |-> FALSE, error |-> None]

\* A create that puts the new record last.
CreateSuccessStateAppended(prev, newActivity) ==
    [prev EXCEPT !.data = prev.data \o <<newActivity>>]

\* createActivity, success: data: [newActivity, ...prev.data].
CreateSuccessState(prev, newActivity) ==
    [prev EXCEPT !.data = <<newActivity>> \o prev.data]

\* deleteActivity, success: data: prev.data.filter(...).
DeleteSuccessState(prev, id) == [prev EXCEPT !.data = Filter(prev.data, id)]

\* A catch branch that also drops the list.
MutationFailureStateClearing(prev, msg) ==
    [prev EXCEPT !.data = <<>>, !.error = Some(msg)]

\* createActivity / deleteActivity, catch.
MutationFailureState(prev, msg) == [prev EXCEPT !.error = Some(msg)]

\* refreshData: setPagination((prev) => ({ ...prev, offset: 0 })).
RefreshPagination(prev) == [prev EXCEPT !.offset = 0]

\* loadMore: TRUE when the call goes on to fetch.
LoadMoreProceeds(pag, acts) == ~(~pag.hasMore \/ acts.loading)

\* A next offset that counts pages, not records.
LoadMoreOffsetByPage(pag) == pag.offset + 1

\* loadMore: const newOffset = pagination.offset + pagination.limit.
LoadMoreOffset(pag) == pag.offset + pag.limit

\* A fetch that rethrows from its catch branch.
FetchPromiseRethrowing(outcome) ==
    IF outcome = "pending" THEN "pending"
    ELSE IF outcome = "err" THEN "rejected" ELSE "fulfilled"

\* The promise fetchActivities / fetchStats returns once the call has ended
\* with `outcome` ("ok" or "err"): the try/catch swallows the error.
FetchPromise(outcome) ==
    IF outcome = "pending" THEN "pending" ELSE "fulfilled"

\* Promise.all([a, b]): rejected as soon as one is, fulfilled when both are.
PromiseAll(a, b) ==
    IF a = "rejected" \/ b = "rejected" THEN "rejected"
    ELSE IF a = "fulfilled" /\ b = "fulfilled" THEN "fulfilled"
    ELSE "pending"

\* The promise of a refreshData call.
RefreshPromise(c) == PromiseAll(FetchPromise(c.list), FetchPromise(c.stats))

\* -------------------------------------------------------------- requests

\* Sending a request that aborts the ones in flight.
IssueCancelling(reqs, r) == {r}

\* The requests in flight once `r` is sent: a call awaits its own request and
\* touches no other.
Issue(reqs, r) == reqs \cup {r}

ListReq(rid, site, limit, offset) ==
    [rid |-> rid, site |-> site, limit |-> limit, offset |-> offset,
     phase |-> "sent", body |-> <<>>]

StatsReq(rid, site) ==
    [rid |-> rid, site |-> site, phase |-> "sent",
     body |-> [total_count |-> 0]]

CreateReq(rid) == [rid |-> rid, phase |-> "sent", id |-> 0]

DeleteReq(rid, id) == [rid |-> rid, phase |-> "sent", id |-> id, msg |-> ""]

\* The bounds leave room for one more list request.
ListRoom == Cardinality(listReqs) < MaxInFlight

\* The bounds leave room for one more stats request; every mutation in flight
\* issues one when it succeeds.
StatsRoom ==
    Cardinality(statsReqs) + Cardinality(createReqs) + Cardinality(deleteReqs)
        < MaxInFlight

NoResult == [op |-> "none", value |-> ""]
NoList == [rid |-> 0, newest |-> 0, site |-> "", newestSite |-> "", limit |-> 0,
           offset |-> 0, len |-> 0, prevLen |-> 0]
NoStats == [rid |-> 0, newest |-> 0, site |-> "", newestSite |-> ""]

\* The history of the responses applied: the one applied last (rid, site) and
\* the most recently issued one among those applied so far (newest, newestSite).
Applied(last, r) ==
    [rid |-> r.rid, site |-> r.site,
     newest |-> IF r.rid > last.newest THEN r.rid ELSE last.newest,
     newestSite |-> IF r.rid > last.newest THEN r.site ELSE last.newestSite]

\* A refreshData call is told that one of its two fetches has ended.
NoteList(cs, rid, outcome) ==
    {IF c.listRid = rid THEN [c EXCEPT !.list = outcome] ELSE c : c \in cs}
NoteStats(cs, rid, outcome) ==
    {IF c.statsRid = rid THEN [c EXCEPT !.stats = outcome] ELSE c : c \in cs}

Settled(cs) == {c \in cs : RefreshPromise(c) # "pending"}

\* The refreshData calls still pending once the fetches have reported: a
\* call whose Promise.all has settled returns and is gone.
StillPending(cs) == cs \ Settled(cs)

\* ------------------------------------------------------------------ Init

InitialStore(n) == [i \in 1..n |-> n + 1 - i]

\* The hook as constructed, against a server that holds at most `most` records.
InitWith(most) ==
    /\ activitiesState = [data |-> <<>>, loading |-> TRUE, error |-> None]
    /\ statsState = [data |-> None, loading |-> TRUE, error |-> None]
    /\ pagination = [limit |-> DEFAULT_LIMIT, offset |-> 0, hasMore |-> TRUE]
    /\ mounted = FALSE
    /\ listReqs = {}
    /\ statsReqs = {}
    /\ createReqs = {}
    /\ deleteReqs = {}
    /\ refreshCalls = {}
    /\ nextList = 0
    /\ nextStats = 0
    /\ nextMut = 0
    /\ calls = 0
    /\ \E n \in 0..most : store = InitialStore(n) /\ nextId = n + 1
    /\ lastList = NoList
    /\ lastStats = NoStats
    /\ lastResult = NoResult

Init == InitWith(MaxInitial)

\* ----------------------------------------------------------- hook calls
\* `cap` is the number of calls a behaviour may make on the hook.

\* A mount effect that runs again (its dependencies change between renders).
MountAgain ==
    /\ ListRoom
    /\ mounted' = TRUE
    /\ activitiesState' = FetchStart(activitiesState)
    /\ statsState' = FetchStart(statsState)
    /\ listReqs' = Issue(listReqs, ListReq(nextList + 1, "mount", DEFAULT_LIMIT, 0))
    /\ statsReqs' = Issue(statsReqs, StatsReq(nextStats + 1, "mount"))
    /\ nextList' = nextList + 1
    /\ nextStats' = nextStats + 1
    /\ UNCHANGED <<pagination, createReqs, deleteReqs, refreshCalls, nextMut, calls,
                   store, nextId, lastList, lastStats, lastResult>>

\* useEffect(() => { fetchActivities(); fetchStats(); }, ...): runs once, the
\* two callbacks it depends on never change.
Mount ==
    /\ ~mounted
    /\ mounted' = TRUE
    /\ activitiesState' = FetchStart(activitiesState)
    /\ statsState' = FetchStart(statsState)
    /\ listReqs' = Issue(listReqs, ListReq(nextList + 1, "mount", DEFAULT_LIMIT, 0))
    /\ statsReqs' = Issue(statsReqs, StatsReq(nextStats + 1, "mount"))
    /\ nextList' = nextList + 1
    /\ nextStats' = nextStats + 1
    /\ UNCHANGED <<pagination, createReqs, deleteReqs, refreshCalls, nextMut, calls,
                   store, nextId, lastList, lastStats, lastResult>>

\* refreshData(), up to its await.
Refresh(cap) ==
    /\ mounted
    /\ calls < cap
    /\ ListRoom
    /\ StatsRoom
    /\ calls' = calls + 1
    /\ pagination' = RefreshPagination(pagination)
    /\ activitiesState' = FetchStart(activitiesState)
    /\ statsState' = FetchStart(statsState)
    /\ listReqs' = Issue(listReqs, ListReq(nextList + 1, "refresh", pagination.limit, 0))
    /\ statsReqs' = Issue(statsReqs, StatsReq(nextStats + 1, "refresh"))
    /\ refreshCalls' = refreshCalls \cup
          {[listRid |-> nextList + 1, statsRid |-> nextStats + 1,
            list |-> "pending", stats |-> "pending"]}
    /\ nextList' = nextList + 1
    /\ nextStats' = nextStats + 1
    /\ UNCHANGED <<mounted, createReqs, deleteReqs, nextMut, store, nextId, lastList,
                   lastStats, lastResult>>

\* loadMore(), when it does not return at once (a call that returns at once
\* changes nothing: a stuttering step).
LoadMore(cap) ==
    /\ mounted
    /\ calls < cap
    /\ ListRoom
    /\ LoadMoreProceeds(pagination, activitiesState)
    /\ calls' = calls + 1
    /\ activitiesState' = FetchStart(activitiesState)
    /\ listReqs' = Issue(listReqs, ListReq(nextList + 1, "loadMore", pagination.limit,
                                           LoadMoreOffset(pagination)))
    /\ nextList' = nextList + 1
    /\ UNCHANGED <<statsState, pagination, mounted, statsReqs, createReqs, deleteReqs,
                   refreshCalls, nextStats, nextMut, store, nextId, lastList,
                   lastStats, lastResult>>

\* createActivity(data), up to its await.
Create(cap) ==
    /\ mounted
    /\ calls < cap
    /\ StatsRoom
    /\ calls' = calls + 1
    /\ createReqs' = Issue(createReqs, CreateReq(nextMut + 1))
    /\ nextMut' = nextMut + 1
    /\ UNCHANGED <<activitiesState, statsState, pagination, mounted, listReqs,
                   statsReqs, deleteReqs, refreshCalls, nextList, nextStats, store,
                   nextId, lastList, lastStats, lastResult>>

\* deleteActivity(id), up to its await, for a record the list shows.
Delete(cap) ==
    /\ mounted
    /\ calls < cap
    /\ StatsRoom
    /\ calls' = calls + 1
    /\ \E id \in Range(activitiesState.data) :
          deleteReqs' = Issue(deleteReqs, DeleteReq(nextMut + 1, id))
    /\ nextMut' = nextMut + 1
    /\ UNCHANGED <<activitiesState, statsState, pagination, mounted, listReqs,
                   statsReqs, createReqs, refreshCalls, nextList, nextStats, store,
                   nextId, lastList, lastStats, lastResult>>

\* ------------------------------------------------------------ the server

\* GET /activities
ServerList ==
    \E r \in listReqs :
        /\ r.phase = "sent"
        /\ listReqs' = (listReqs \ {r}) \cup
              {[r EXCEPT !.phase = "ok", !.body = ListPage(store, r.limit, r.offset)]}
        /\ UNCHANGED <<activitiesState, statsState, pagination, mounted, statsReqs,
                       createReqs, deleteReqs, refreshCalls, nextList, nextStats,
                       nextMut, calls, store, nextId, lastList, lastStats, lastResult>>

\* GET /stats
ServerStats ==
    \E r \in statsReqs :
        /\ r.phase = "sent"
        /\ statsReqs' = (statsReqs \ {r}) \cup
              {[r EXCEPT !.phase = "ok", !.body = ComputeStats(store)]}
        /\ UNCHANGED <<activitiesState, statsState, pagination, mounted, listReqs,
                       createReqs, deleteReqs, refreshCalls, nextList, nextStats,
                       nextMut, calls, store, nextId, lastList, lastStats, lastResult>>

\* POST /activities: 201 and the record, with the identifier assigned.
ServerCreate ==
    \E r \in createReqs :
        /\ r.phase = "sent"
        /\ store' = <<nextId>> \o store
        /\ nextId' = nextId + 1
        /\ createReqs' = (createReqs \ {r}) \cup {[r EXCEPT !.phase = "ok", !.id = nextId]}
        /\ UNCHANGED <<activitiesState, statsState, pagination, mounted, listReqs,
                       statsReqs, deleteReqs, refreshCalls, nextList, nextStats,
                       nextMut, calls, lastList, lastStats, lastResult>>

\* DELETE /activities/{id}: 204 when the record is there, 404 when it is not.
ServerDelete ==
    \E r \in deleteReqs :
        /\ r.phase = "sent"
        /\ store' = Filter(store, r.id)
        /\ deleteReqs' = (deleteReqs \ {r}) \cup
              {IF r.id \in Range(store) THEN [r EXCEPT !.phase = "ok"]
               ELSE [r EXCEPT !.phase = "err", !.msg = NotFoundMsg]}
        /\ UNCHANGED <<activitiesState, statsState, pagination, mounted, listReqs,
                       statsReqs, createReqs, refreshCalls, nextList, nextStats,
                       nextMut, calls, nextId, lastList, lastStats, lastResult>>

\* ---------------------------------------------------- the continuations
\* A call takes its catch branch when the server answered with an error
\* ("err") or when the request failed in transport, which can happen to any
\* request that was sent and not yet answered.

\* err.message of a rejected call.
RejectMsg(r) == IF r.phase = "err" THEN r.msg ELSE ErrMsg

\* fetchActivities after its await, try branch.
ListResolve ==
    \E r \in listReqs :
        /\ r.phase = "ok"
        /\ listReqs' = listReqs \ {r}
        /\ activitiesState' = ListSuccessState(activitiesState, r.offset, r.body)
        /\ pagination' = ListSuccessPagination(r.limit, r.offset, r.body)
        /\ refreshCalls' = StillPending(NoteList(refreshCalls, r.rid, "ok"))
        /\ lastList' = [rid |-> r.rid, site |-> r.site,
                        newest |-> Applied(lastList, r).newest,
                        newestSite |-> Applied(lastList, r).newestSite,
                        limit |-> r.limit, offset |-> r.offset,
                        len |-> Len(r.body), prevLen |-> Len(activitiesState.data)]
        /\ UNCHANGED <<statsState, mounted, statsReqs, createReqs, deleteReqs,
                       nextList, nextStats, nextMut, calls, store, nextId, lastStats,
                       lastResult>>

\* fetchActivities after its await, catch branch.
ListReject ==
    \E r \in listReqs :
        /\ r.phase = "sent"
        /\ listReqs' = listReqs \ {r}
        /\ activitiesState' = FetchFailureState(activitiesState, RejectMsg(r))
        /\ refreshCalls' = StillPending(NoteList(refreshCalls, r.rid, "err"))
        /\ UNCHANGED <<statsState, pagination, mounted, statsReqs, createReqs,
                       deleteReqs, nextList, nextStats, nextMut, calls, store, nextId,
                       lastList, lastStats, lastResult>>

\* fetchStats after its await, try branch.
StatsResolve ==
    \E r \in statsReqs :
        /\ r.phase = "ok"
        /\ statsReqs' = statsReqs \ {r}
        /\ statsState' = StatsSuccessState(r.body)
        /\ refreshCalls' = StillPending(NoteStats(refreshCalls, r.rid, "ok"))
        /\ lastStats' = Applied(lastStats, r)
        /\ UNCHANGED <<activitiesState, pagination, mounted, listReqs, createReqs,
                       deleteReqs, nextList, nextStats, nextMut, calls, store, nextId,
                       lastList, lastResult>>

\* fetchStats after its await, catch branch.
StatsReject ==
    \E r \in statsReqs :
        /\ r.phase = "sent"
        /\ statsReqs' = statsReqs \ {r}
        /\ statsState' = FetchFailureState(statsState, RejectMsg(r))
        /\ refreshCalls' = StillPending(NoteStats(refreshCalls, r.rid, "err"))
        /\ UNCHANGED <<activitiesState, pagination, mounted, listReqs, createReqs,
                       deleteReqs, nextList, nextStats, nextMut, calls, store, nextId,
                       lastList, lastStats, lastResult>>

\* createActivity after its await, try branch: prepend, fetchStats(), return.
CreateResolve ==
    \E r \in createReqs :
        /\ r.phase = "ok"
        /\ createReqs' = createReqs \ {r}
        /\ activitiesState' = CreateSuccessState(activitiesState, r.id)
        /\ statsState' = FetchStart(statsState)
        /\ statsReqs' = Issue(statsReqs, StatsReq(nextStats + 1, "create"))
        /\ nextStats' = nextStats + 1
        /\ lastResult' = [op |-> "create", value |-> "activity"]
        /\ UNCHANGED <<pagination, mounted, listReqs, deleteReqs, refreshCalls,
                       nextList, nextMut, calls, store, nextId, lastList, lastStats>>

\* createActivity after its await, catch branch.
CreateReject ==
    \E r \in createReqs :
        /\ r.phase = "sent"
        /\ createReqs' = createReqs \ {r}
        /\ activitiesState' = MutationFailureState(activitiesState, RejectMsg(r))
        /\ lastResult' = [op |-> "create", value |-> "null"]
        /\ UNCHANGED <<statsState, pagination, mounted, listReqs, statsReqs,
                       deleteReqs, refreshCalls, nextList, nextStats, nextMut, calls,
                       store, nextId, lastList, lastStats>>

\* deleteActivity after its await, try branch: filter, fetchStats(), return.
DeleteResolve ==
    \E r \in deleteReqs :
        /\ r.phase = "ok"
        /\ deleteReqs' = deleteReqs \ {r}
        /\ activitiesState' = DeleteSuccessState(activitiesState, r.id)
        /\ statsState' = FetchStart(statsState)
        /\ statsReqs' = Issue(statsReqs, StatsReq(nextStats + 1, "delete"))
        /\ nextStats' = nextStats + 1
        /\ lastResult' = [op |-> "delete", value |-> "true"]
        /\ UNCHANGED <<pagination, mounted, listReqs, createReqs, refreshCalls,
                       nextList, nextMut, calls, store, nextId, lastList, lastStats>>

\* deleteActivity after its await, catch branch.
DeleteReject ==
    \E r \in deleteReqs :
        /\ r.phase \in {"sent", "err"}
        /\ deleteReqs' = deleteReqs \ {r}
        /\ activitiesState' = MutationFailureState(activitiesState, RejectMsg(r))
        /\ lastResult' = [op |-> "delete", value |-> "false"]
        /\ UNCHANGED <<statsState, pagination, mounted, listReqs, statsReqs,
                       createReqs, refreshCalls, nextList, nextStats, nextMut, calls,
                       store, nextId, lastList, lastStats>>

\* ================================================================ session
\* The credential, the AuthProvider (contexts/AuthContext), the ProtectedRoute
\* around the dashboard and the authenticated calls of lib/api.ts.
\*
\* A document is loaded at a page; its AuthProvider starts loading and its
\* mount effect reads the stored token.  Every state change is followed by
\* the render and the effects it causes, in the same step.  The server's
\* check of the credential is modelled from section 6 of the specification.

\* The number of logins in one behaviour; each issues a new token.
MaxLogins == 1

\* The number of authenticated calls made in one behaviour.
MaxApiCalls == 2

VARIABLES
    token,       \* localStorage 'token': None or Some(k)
    accepted,    \* the tokens the server accepts
    auth,        \* AuthProvider state {user, token, loading}
    page,        \* the page of the document: "dashboard" or "login"
    booted,      \* the AuthProvider's mount effect has run in this document
    rendered,    \* what ProtectedRoute rendered last: "none" before it ever did
    content,     \* the dashboard content has rendered in this document
    pushed,      \* the last step called router.push('/login')
    meReqs,      \* getCurrentUser calls in flight
    apiReqs,     \* authenticated dashboard calls in flight
    nextApi,     \* number of authenticated calls made so far
    nextTok,     \* the next token the server issues
    lastApi      \* history: how the authenticated call that ended last ended

sessionVars == <<token, accepted, auth, page, booted, rendered, content, pushed, meReqs,
                 apiReqs, nextApi, nextTok, lastApi>>

AuthRequiredMsg == "Authentication required. Please log in."
SessionExpiredMsg == "Session expired. Please log in again."

ApiOps == {"create", "list", "get", "stats", "delete"}

\* useState initial values of the AuthProvider.
AuthInitial == [user |-> None, token |-> None, loading |-> TRUE]

NoApi == [rid |-> 0, op |-> "", cred |-> "", status |-> 0, outcome |-> "",
          message |-> "", value |-> ""]

\* A getAuthToken that reports an expired session.
getAuthTokenExpired(stored) ==
    IF stored = None
    THEN [threw |-> TRUE, message |-> SessionExpiredMsg]
    ELSE [threw |-> FALSE, message |-> ""]

\* getAuthToken: the stored token, or an error when there is none.
getAuthToken(stored) ==
    IF stored = None
    THEN [threw |-> TRUE, message |-> AuthRequiredMsg]
    ELSE [threw |-> FALSE, message |-> ""]

\* The detail of the server's 422.
ValidationMsg == "Field required"

\* The body of a response: nothing, JSON with or without a `detail`, or text
\* that is not JSON.
NoBody == [kind |-> "empty", detail |-> None]
JsonBody(detail) == [kind |-> "json", detail |-> detail]
TextBody == [kind |-> "text", detail |-> None]

\* `Request failed with status ${response.status}`
RequestFailedMsg(status) ==
    IF status = 404 THEN "Request failed with status 404"
    ELSE "Request failed with status 422"

\* response.json().catch(() => ({ detail: 'Unknown error' }))
ErrorPayload(body) ==
    IF body.kind = "json" THEN body ELSE JsonBody(Some("Unknown error"))

\* error.detail || `Request failed with status ${response.status}`
ErrorMessage(status, body) ==
    LET error == ErrorPayload(body)
    IN  IF error.detail # None /\ error.detail[1] # ""
        THEN error.detail[1]
        ELSE RequestFailedMsg(status)

\* A handler that signs the user out on every error response.
handleAuthenticatedResponseStrict(status, body) ==
    IF ~(200 <= status /\ status <= 299)
    THEN [clear |-> TRUE, redirect |-> TRUE, outcome |-> "error",
          message |-> SessionExpiredMsg, value |-> ""]
    ELSE [clear |-> FALSE, redirect |-> FALSE, outcome |-> "data", message |-> "",
          value |-> IF status = 204 THEN "undefined" ELSE "json"]

\* handleAuthenticatedResponse: what the client does with a response.
handleAuthenticatedResponse(status, body) ==
    IF status = 401
    THEN [clear |-> TRUE, redirect |-> TRUE, outcome |-> "error",
          message |-> SessionExpiredMsg, value |-> ""]
    ELSE IF ~(200 <= status /\ status <= 299)
    THEN [clear |-> FALSE, redirect |-> FALSE, outcome |-> "error",
          message |-> ErrorMessage(status, body), value |-> ""]
    ELSE [clear |-> FALSE, redirect |-> FALSE, outcome |-> "data", message |-> "",
          value |-> IF status = 204 THEN "undefined" ELSE "json"]

\* A route that renders its children as soon as loading is over.
ProtectedRouteUnguarded(a) ==
    IF a.loading THEN "spinner" ELSE "children"

\* ProtectedRoute: what it renders.
ProtectedRoute(a) ==
    IF a.loading THEN "spinner"
    ELSE IF a.user = None THEN "null"
    ELSE "children"

\* ProtectedRoute's effect, mounted on the dashboard page: the page after it.
ProtectedRouteEffect(a, pg) ==
    IF pg = "dashboard" /\ ~a.loading /\ a.user = None THEN "login" ELSE pg

\* The server's answer to a call that carries token `k` (section 6): 401
\* unless the token is accepted; else the endpoint's success status, or 404
\* from the two endpoints that name a record.
Answers(op, k, acc) ==
    IF k \notin acc THEN {401}
    ELSE CASE op = "create" -> {201, 422}
           [] op = "delete" -> {204, 404}
           [] op = "get" -> {200, 404}
           [] OTHER -> {200}

\* The bodies a response of this status can have: none with 204, JSON with
\* the success statuses, and with an error status the server's payload with
\* its detail, or whatever something in between sends instead.
Bodies(status) ==
    IF status = 204 THEN {NoBody}
    ELSE IF 200 <= status /\ status <= 299 THEN {JsonBody(None)}
    ELSE {JsonBody(Some(IF status = 404 THEN NotFoundMsg ELSE ValidationMsg)),
          JsonBody(Some("")), JsonBody(None), TextBody}

\* The render and the effects that follow a state change on page `pg`.
Land(a, pg) ==
    /\ rendered' = IF pg = "dashboard" THEN ProtectedRoute(a) ELSE rendered
    /\ page' = ProtectedRouteEffect(a, pg)
    /\ pushed' = (page' # pg)
    /\ content' = (content \/ (pg = "dashboard" /\ ProtectedRoute(a) = "children"))

\* A new document at page `pg`: nothing of the old one survives but the
\* stored token.
Document(pg) ==
    /\ auth' = AuthInitial
    /\ page' = pg
    /\ booted' = FALSE
    /\ rendered' = IF pg = "dashboard" THEN ProtectedRoute(AuthInitial) ELSE "none"
    /\ content' = FALSE
    /\ pushed' = FALSE
    /\ meReqs' = {}
    /\ apiReqs' = {}

SessionInit ==
    /\ \E stored \in {None, Some(0)} :
         /\ token = stored
         /\ accepted \in (IF stored = None THEN {{}} ELSE {{}, {0}})
    /\ auth = AuthInitial
    /\ page \in {"dashboard", "login"}
    /\ booted = FALSE
    /\ rendered = IF page = "dashboard" THEN ProtectedRoute(AuthInitial) ELSE "none"
    /\ content = FALSE
    /\ pushed = FALSE
    /\ meReqs = {}
    /\ apiReqs = {}
    /\ nextApi = 0
    /\ nextTok = 1
    /\ lastApi = NoApi

\* AuthProvider's mount effect.
ProviderMount ==
    /\ ~booted
    /\ booted' = TRUE
    /\ IF token # None
       THEN /\ auth' = [auth EXCEPT !.token = token]
            /\ meReqs' = {[tok |-> token[1], kind |-> "init", phase |-> "sent"]}
       ELSE /\ auth' = [auth EXCEPT !.loading = FALSE]
            /\ meReqs' = {}
    /\ Land(auth', page)
    /\ UNCHANGED <<token, accepted, apiReqs, nextApi, nextTok, lastApi>>

\* getCurrentUser(storedToken).then(setUser)
MeResolve ==
    \E r \in meReqs :
        /\ r.kind = "init" /\ r.phase = "sent"
        /\ r.tok \in accepted
        /\ auth' = [auth EXCEPT !.user = Some("user")]
        /\ meReqs' = (meReqs \ {r}) \cup {[r EXCEPT !.phase = "resolved"]}
        /\ Land(auth', page)
        /\ UNCHANGED <<token, accepted, booted, apiReqs, nextApi, nextTok, lastApi>>

\* .catch: the token was refused, or the call failed in transport.
MeReject ==
    \E r \in meReqs :
        /\ r.kind = "init" /\ r.phase = "sent"
        /\ token' = None
        /\ auth' = [auth EXCEPT !.token = None]
        /\ meReqs' = (meReqs \ {r}) \cup {[r EXCEPT !.phase = "rejected"]}
        /\ Land(auth', page)
        /\ UNCHANGED <<accepted, booted, apiReqs, nextApi, nextTok, lastApi>>

\* .finally(() => setLoading(false))
MeFinally ==
    \E r \in meReqs :
        /\ r.phase \in {"resolved", "rejected"}
        /\ auth' = [auth EXCEPT !.loading = FALSE]
        /\ meReqs' = meReqs \ {r}
        /\ Land(auth', page)
        /\ UNCHANGED <<token, accepted, booted, apiReqs, nextApi, nextTok, lastApi>>

\* login, after apiLogin has answered with a new token.
LoginToken ==
    /\ booted /\ page = "login"
    /\ nextTok <= MaxLogins
    /\ accepted' = accepted \cup {nextTok}
    /\ token' = Some(nextTok)
    /\ auth' = [auth EXCEPT !.token = Some(nextTok)]
    /\ meReqs' = meReqs \cup {[tok |-> nextTok, kind |-> "login", phase |-> "sent"]}
    /\ nextTok' = nextTok + 1
    /\ Land(auth', page)
    /\ UNCHANGED <<booted, apiReqs, nextApi, lastApi>>

\* login, after getCurrentUser(newToken) has answered.
LoginUser ==
    \E r \in meReqs :
        /\ r.kind = "login"
        /\ r.tok \in accepted
        /\ auth' = [auth EXCEPT !.user = Some("user")]
        /\ meReqs' = meReqs \ {r}
        /\ Land(auth', page)
        /\ UNCHANGED <<token, accepted, booted, apiReqs, nextApi, nextTok, lastApi>>

\* login, getCurrentUser(newToken) failed: login() throws.
LoginFail ==
    \E r \in meReqs :
        /\ r.kind = "login"
        /\ meReqs' = meReqs \ {r}
        /\ pushed' = FALSE
        /\ UNCHANGED <<token, accepted, auth, page, booted, rendered, content, apiReqs,
                       nextApi, nextTok, lastApi>>

\* logout, from the Navbar of a signed-in user.
Logout ==
    /\ booted /\ auth.user # None
    /\ token' = None
    /\ auth' = [auth EXCEPT !.token = None, !.user = None]
    /\ Land(auth', page)
    /\ UNCHANGED <<accepted, booted, meReqs, apiReqs, nextApi, nextTok, lastApi>>

\* The Navbar's link to /dashboard, shown to a signed-in user.
FollowDashboardLink ==
    /\ booted /\ auth.user # None /\ page # "dashboard"
    /\ Land(auth, "dashboard")
    /\ UNCHANGED <<token, accepted, auth, booted, meReqs, apiReqs, nextApi,
                   nextTok, lastApi>>

\* The user loads a page afresh.
LoadPage ==
    \E pg \in {"dashboard", "login"} :
        /\ booted
        /\ Document(pg)
        /\ UNCHANGED <<token, accepted, nextApi, nextTok, lastApi>>

\* The server stops accepting a token.
Expire ==
    \E k \in accepted :
        /\ accepted' = accepted \ {k}
        /\ pushed' = FALSE
        /\ UNCHANGED <<token, auth, page, booted, rendered, content, meReqs, apiReqs,
                       nextApi, nextTok, lastApi>>

\* createActivity, getActivities, getActivity, getActivityStats,
\* deleteActivity up to the await of fetch.
ApiCall ==
    \E op \in ApiOps :
        /\ content
        /\ nextApi < MaxApiCalls
        /\ nextApi' = nextApi + 1
        /\ IF getAuthToken(token).threw
           THEN /\ lastApi' = [rid |-> nextApi + 1, op |-> op, cred |-> "absent",
                               status |-> 0, outcome |-> "error",
                               message |-> getAuthToken(token).message,
                               value |-> ""]
                /\ apiReqs' = apiReqs
           ELSE /\ apiReqs' = apiReqs \cup
                      {[rid |-> nextApi + 1, op |-> op, tok |-> token[1],
                        phase |-> "sent", status |-> 0, body |-> NoBody]}
                /\ lastApi' = lastApi
        /\ pushed' = FALSE
        /\ UNCHANGED <<token, accepted, auth, page, booted, rendered, content, meReqs, nextTok>>

\* The server answers an authenticated call.
ApiAnswer ==
    \E r \in apiReqs :
        /\ r.phase = "sent"
        /\ \E s \in Answers(r.op, r.tok, accepted) :
             \E b \in Bodies(s) :
                 apiReqs' = (apiReqs \ {r}) \cup
                     {[r EXCEPT !.phase = "answered", !.status = s, !.body = b]}
        /\ pushed' = FALSE
        /\ UNCHANGED <<token, accepted, auth, page, booted, rendered, content, meReqs,
                       nextApi, nextTok, lastApi>>

\* handleAuthenticatedResponse(response): on 401 the token is removed and
\* window.location.href = '/login' loads a new document.
ApiReturn ==
    \E r \in apiReqs :
        /\ r.phase = "answered"
        /\ LET h == handleAuthenticatedResponse(r.status, r.body) IN
             /\ lastApi' = [rid |-> r.rid, op |-> r.op,
                            cred |-> IF r.status = 401 THEN "invalid" ELSE "valid",
                            status |-> r.status, outcome |-> h.outcome,
                            message |-> h.message, value |-> h.value]
             /\ token' = IF h.clear THEN None ELSE token
             /\ IF h.redirect
                THEN Document("login")
                ELSE /\ apiReqs' = apiReqs \ {r}
                     /\ pushed' = FALSE
                     /\ UNCHANGED <<auth, page, booted, rendered, content, meReqs>>
        /\ UNCHANGED <<accepted, nextApi, nextTok>>

\* fetch rejects: the call failed in transport.
ApiFail ==
    \E r \in apiReqs :
        /\ r.phase = "sent"
        /\ lastApi' = [rid |-> r.rid, op |-> r.op, cred |-> "unknown", status |-> 0,
                       outcome |-> "error", message |-> ErrMsg, value |-> ""]
        /\ apiReqs' = apiReqs \ {r}
        /\ pushed' = FALSE
        /\ UNCHANGED <<token, accepted, auth, page, booted, rendered, content, meReqs,
                       nextApi, nextTok>>

\* ======================================================== activity detail
\* The ActivityDetail modal (components/dashboard/ActivityDetail.tsx) as the
\* dashboard page mounts it: always mounted, `activity` is the page's
\* selectedActivity, onClose sets it to null and onDelete is the hook's
\* deleteActivity, which resolves true or false and never rejects.

\* The activities that can be selected.
MaxShown == 2

\* The number of onDelete calls made in one behaviour.
MaxDetailCalls == 2

\* The number of close timers started by the user, and of animation frames,
\* pending at once.
MaxPending == 2

VARIABLES
    selected,           \* the page's selectedActivity: None or Some(id)
    isDeleting,
    showDeleteConfirm,
    isVisible,
    onDeleteCalls,      \* onDelete calls in flight
    timers,             \* pending setTimeout(onClose, 200), by what started them
    frames,             \* pending requestAnimationFrame callbacks
    nextDel,            \* number of onDelete calls made so far
    lastOnDelete        \* history: the onDelete call that resolved last

detailVars == <<selected, isDeleting, showDeleteConfirm, isVisible, onDeleteCalls,
                timers, frames, nextDel, lastOnDelete>>

NoOnDelete == [cid |-> 0, id |-> 0, success |-> FALSE]

\* A footer whose confirmation buttons are never disabled.
FooterNeverDisabled(activity, confirm, deleting) ==
    IF activity = None THEN {}
    ELSE IF ~confirm
    THEN {[name |-> "Delete Activity", enabled |-> TRUE],
          [name |-> "Close", enabled |-> TRUE]}
    ELSE {[name |-> "Cancel", enabled |-> TRUE],
          [name |-> "Delete", enabled |-> TRUE]}

\* The footer of the modal: the buttons rendered and whether each is enabled.
\* Nothing is rendered without an activity.
Footer(activity, confirm, deleting) ==
    IF activity = None THEN {}
    ELSE IF ~confirm
    THEN {[name |-> "Delete Activity", enabled |-> TRUE],
          [name |-> "Close", enabled |-> TRUE]}
    ELSE {[name |-> "Cancel", enabled |-> ~deleting],
          [name |-> "Delete", enabled |-> ~deleting]}

\* A button of the footer can be clicked.
Clickable(name) ==
    [name |-> name, enabled |-> TRUE] \in Footer(selected, showDeleteConfirm, isDeleting)

\* A handleDelete that closes whatever onDelete resolved to.
ClosesAfterDeleteAlways(success) == TRUE

\* handleDelete: `if (success) handleClose()`.
ClosesAfterDelete(success) == success

DetailInit ==
    /\ selected = None
    /\ isDeleting = FALSE
    /\ showDeleteConfirm = FALSE
    /\ isVisible = FALSE
    /\ onDeleteCalls = {}
    /\ timers = [user |-> 0, delete |-> 0]
    /\ frames = 0
    /\ nextDel = 0
    /\ lastOnDelete = NoOnDelete

\* The page's onSelect: a row of the list is clicked; the modal's effect asks
\* for an animation frame.  The modal covers the page while it is open.
Select ==
    \E id \in 1..MaxShown :
        /\ selected = None
        /\ frames < MaxPending
        /\ selected' = Some(id)
        /\ frames' = frames + 1
        /\ UNCHANGED <<isDeleting, showDeleteConfirm, isVisible, onDeleteCalls,
                       timers, nextDel, lastOnDelete>>

\* requestAnimationFrame(() => setIsVisible(true))
Frame ==
    /\ frames > 0
    /\ frames' = frames - 1
    /\ isVisible' = TRUE
    /\ UNCHANGED <<selected, isDeleting, showDeleteConfirm, onDeleteCalls, timers,
                   nextDel, lastOnDelete>>

\* The "Delete Activity" button.
AskDelete ==
    /\ Clickable("Delete Activity")
    /\ showDeleteConfirm' = TRUE
    /\ UNCHANGED <<selected, isDeleting, isVisible, onDeleteCalls, timers, frames,
                   nextDel, lastOnDelete>>

\* The "Cancel" button of the confirmation.
CancelDelete ==
    /\ Clickable("Cancel")
    /\ showDeleteConfirm' = FALSE
    /\ UNCHANGED <<selected, isDeleting, isVisible, onDeleteCalls, timers, frames,
                   nextDel, lastOnDelete>>

\* handleDelete up to its await, from the "Delete" button of the confirmation.
ConfirmDelete ==
    /\ Clickable("Delete")
    /\ selected # None
    /\ nextDel < MaxDetailCalls
    /\ isDeleting' = TRUE
    /\ onDeleteCalls' = onDeleteCalls \cup {[cid |-> nextDel + 1, id |-> selected[1]]}
    /\ nextDel' = nextDel + 1
    /\ UNCHANGED <<selected, showDeleteConfirm, isVisible, timers, frames, lastOnDelete>>

\* handleDelete after its await: onDelete resolved to `success`.
DeleteSettled ==
    \E c \in onDeleteCalls, success \in BOOLEAN :
        /\ onDeleteCalls' = onDeleteCalls \ {c}
        /\ isDeleting' = FALSE
        /\ lastOnDelete' = [cid |-> c.cid, id |-> c.id, success |-> success]
        /\ IF ClosesAfterDelete(success)
           THEN /\ isVisible' = FALSE
                /\ showDeleteConfirm' = FALSE
                /\ timers' = [timers EXCEPT !.delete = @ + 1]
           ELSE UNCHANGED <<isVisible, showDeleteConfirm, timers>>
        /\ UNCHANGED <<selected, frames, nextDel>>

\* handleClose from the backdrop, the header's close button or the Escape
\* key (none of them is ever disabled), or from the footer's Close button.
Close ==
    /\ selected # None
    /\ timers.user < MaxPending
    /\ isVisible' = FALSE
    /\ showDeleteConfirm' = FALSE
    /\ timers' = [timers EXCEPT !.user = @ + 1]
    /\ UNCHANGED <<selected, isDeleting, onDeleteCalls, frames, nextDel, lastOnDelete>>

\* A close timer fires: onClose(), and the modal's effect for no activity.
TimerFires ==
    \E by \in {"user", "delete"} :
        /\ timers[by] > 0
        /\ timers' = [timers EXCEPT ![by] = @ - 1]
        /\ selected' = None
        /\ isVisible' = IF selected # None THEN FALSE ELSE isVisible
        /\ UNCHANGED <<isDeleting, showDeleteConfirm, onDeleteCalls, frames, nextDel,
                       lastOnDelete>>

\* ========================================================== activity list
\* What ActivityList (components/dashboard/ActivityList.tsx) renders for the
\* props the dashboard page passes it: the hook's activities, hasMore and
\* activitiesLoading.
ActivityList(activities, hasMore, loading) ==
    IF ~loading /\ Len(activities) = 0
    THEN [emptyState |-> TRUE, rows |-> <<>>, skeleton |-> FALSE, loadMore |-> FALSE]
    ELSE [emptyState |-> FALSE, rows |-> activities, skeleton |-> loading,
          loadMore |-> (hasMore /\ ~loading)]

\* The list as the page shows it.
ShownList ==
    ActivityList(activitiesState.data, pagination.hasMore, activitiesState.loading)

\* =================================================== list delete dialog
\* The Delete Confirmation Modal of the dashboard page (DashboardContent):
\* deleteConfirmId is the id asked about, or null; the dialog is rendered
\* while it is not null and covers the page.  deleteActivity is the hook's:
\* it resolves true or false and never rejects; the row is gone from the
\* list when it resolved true.

\* The number of times the dialog's Delete button is clicked in one behaviour.
MaxConfirms == 3

VARIABLES
    rows,             \* the ids the list shows
    deleteConfirmId,  \* None or Some(id)
    confirming,       \* confirmDelete calls awaiting deleteActivity: [n, id]
    nextConfirm,      \* number of confirmDelete calls that called deleteActivity
    lastConfirm       \* history: the confirmDelete call that ended last

confirmVars == <<rows, deleteConfirmId, confirming, nextConfirm, lastConfirm>>

NoConfirm == [n |-> 0, id |-> 0, deleted |-> FALSE]

\* The dialog's Delete button: onClick={confirmDelete}, never disabled.
ConfirmEnabled(id, inFlight) == TRUE

ConfirmInit ==
    /\ rows = 1..MaxShown
    /\ deleteConfirmId = None
    /\ confirming = {}
    /\ nextConfirm = 0
    /\ lastConfirm = NoConfirm

\* handleDeleteFromList(id): the delete button of a row, out of reach while
\* the dialog covers the page.
HandleDeleteFromList ==
    \E id \in rows :
        /\ deleteConfirmId = None
        /\ deleteConfirmId' = Some(id)
        /\ UNCHANGED <<rows, confirming, nextConfirm, lastConfirm>>

\* Cancel, or a click on the backdrop: setDeleteConfirmId(null).
DismissConfirm ==
    /\ deleteConfirmId # None
    /\ deleteConfirmId' = None
    /\ UNCHANGED <<rows, confirming, nextConfirm, lastConfirm>>

\* confirmDelete, up to its await.
ConfirmDeleteFromList ==
    /\ deleteConfirmId # None
    /\ ConfirmEnabled(deleteConfirmId[1], confirming)
    /\ nextConfirm < MaxConfirms
    /\ nextConfirm' = nextConfirm + 1
    /\ confirming' = confirming \cup {[n |-> nextConfirm + 1, id |-> deleteConfirmId[1]]}
    /\ UNCHANGED <<rows, deleteConfirmId, lastConfirm>>

\* confirmDelete after its await: deleteActivity resolved (true when the
\* record was deleted, and the hook took it off the list); setDeleteConfirmId(null).
ConfirmSettled ==
    \E c \in confirming, deleted \in BOOLEAN :
        /\ deleted => c.id \in rows
        /\ rows' = IF deleted THEN rows \ {c.id} ELSE rows
        /\ confirming' = confirming \ {c}
        /\ deleteConfirmId' = None
        /\ lastConfirm' = [n |-> c.n, id |-> c.id, deleted |-> deleted]
        /\ UNCHANGED nextConfirm

\* ========================================================= activity store
\* The backend behind the dashboard calls, for several owners: the Activity
\* Store (section 4.1), the Stats Aggregator (4.2) and the Dashboard Query
\* Facade (4.3).  Every call is one atomic unit (section 5).  A record is
\* {id, user_id, action_type, created_at}; description and extra_data take no
\* part in any operation and are left out.

\* Records ever created.
MaxCreates == 3
\* The server's clock runs from 0 to MaxTime.
MaxTime == 2
\* Clock ticks in one calendar day.
TicksPerDay == 2
\* The largest limit a caller asks for.
MaxLimit == 2

VARIABLES
    db,        \* the rows of the store, in insertion order
    dbNextId,    \* the id the next insert is assigned
    now,       \* the server's clock
    lastDb     \* the last call on the facade: [op, caller, arg, result] and
               \* the record it removed, if any

storeVars == <<db, dbNextId, now, lastDb>>

Owners == {"A", "B"}
ActionTypes == {"login", "click"}

\* created_at truncated to its calendar day.
DayOf(ts) == ts \div TicksPerDay

Days == {DayOf(t) : t \in 0..MaxTime}

\* start_date? and end_date? of a stats call.
Windows ==
    [start_date : {None} \cup {Some(d) : d \in Days},
     end_date : {None} \cup {Some(d) : d \in Days}]

NoWindow == [start_date |-> None, end_date |-> None]

\* ---------------------------------------------------------- Activity Store

\* create: one row inserted, with the id and timestamp the server assigns.
create(records, id, owner_id, action_type, ts) ==
    Append(records, [id |-> id, user_id |-> owner_id,
                     action_type |-> action_type, created_at |-> ts])

\* get_by_id: single-record lookup with no owner filter.
get_by_id(records, activity_id) ==
    LET hits == SelectSeq(records, LAMBDA r : r.id = activity_id)
    IN  IF hits = <<>> THEN None ELSE Some(Head(hits))

deleteNothing(records, activity_id) == records

\* delete: removes one record by id.
delete(records, activity_id) ==
    SelectSeq(records, LAMBDA r : r.id # activity_id)

OwnedByAnyone(records, owner_id) == records

\* The owner filter of list_by_owner and compute_stats.
OwnedBy(records, owner_id) ==
    SelectSeq(records, LAMBDA r : r.user_id = owner_id)

\* The order of a listing: creation timestamp descending, equal timestamps
\* in insertion (identifier) order.
Precedes(r, s) ==
    \/ r.created_at > s.created_at
    \/ r.created_at = s.created_at /\ r.id < s.id

RECURSIVE InsertOrdered(_, _)
InsertOrdered(sorted, r) ==
    IF sorted = <<>> THEN <<r>>
    ELSE IF Precedes(r, Head(sorted)) THEN <<r>> \o sorted
         ELSE <<Head(sorted)>> \o InsertOrdered(Tail(sorted), r)

RECURSIVE OrderByCreatedDesc(_)
OrderByCreatedDesc(rs) ==
    IF rs = <<>> THEN <<>>
    ELSE InsertOrdered(OrderByCreatedDesc(Tail(rs)), Head(rs))

\* skipping `offset` records
Skip(s, n) == SubSeq(s, n + 1, Len(s))

\* returning at most `limit`
Take(s, n) == SubSeq(s, 1, Min(n, Len(s)))

list_by_ownerFromTheTop(records, owner_id, limit, offset) ==
    Take(OrderByCreatedDesc(OwnedBy(records, owner_id)), limit)

list_by_owner(records, owner_id, limit, offset) ==
    Take(Skip(OrderByCreatedDesc(OwnedBy(records, owner_id)), offset), limit)

\* --------------------------------------------------------- Stats Aggregator

\* Creation date within [start_date, end_date] inclusive, each end optional.
InWindow(r, w) ==
    /\ w.start_date = None \/ DayOf(r.created_at) >= w.start_date[1]
    /\ w.end_date = None \/ DayOf(r.created_at) <= w.end_date[1]

\* The records compute_stats aggregates.
Matching(records, owner_id, w) ==
    SelectSeq(OwnedBy(records, owner_id), LAMBDA r : InWindow(r, w))

\* One more record counted under `key`.
Bump(counts, key) ==
    IF key \in DOMAIN counts
    THEN [counts EXCEPT ![key] = @ + 1]
    ELSE counts @@ (key :> 1)

NoCounts == [k \in {} |-> 0]

by_typeZeroFilled(rs) ==
    [t \in ActionTypes |-> Len(SelectSeq(rs, LAMBDA r : r.action_type = t))]

RECURSIVE by_type(_)
\* count of matching records per distinct action_type
by_type(rs) ==
    IF rs = <<>> THEN NoCounts
    ELSE Bump(by_type(SubSeq(rs, 1, Len(rs) - 1)), rs[Len(rs)].action_type)

RECURSIVE by_date(_)
\* count of matching records per calendar date
by_date(rs) ==
    IF rs = <<>> THEN NoCounts
    ELSE Bump(by_date(SubSeq(rs, 1, Len(rs) - 1)), DayOf(rs[Len(rs)].created_at))

most_common_actionLastMet(rs) ==
    IF rs = <<>> THEN None
    ELSE LET counts == by_type(rs)
             top(i) == \A t \in DOMAIN counts : counts[rs[i].action_type] >= counts[t]
             last == CHOOSE i \in 1..Len(rs) : top(i) /\ \A j \in (i + 1)..Len(rs) : ~top(j)
         IN  Some(rs[last].action_type)

\* The type with the highest entry in by_type, the first one met in record
\* order among equals; null when nothing matches.
most_common_action(rs) ==
    IF rs = <<>> THEN None
    ELSE LET counts == by_type(rs)
             top(i) == \A t \in DOMAIN counts : counts[rs[i].action_type] >= counts[t]
             first == CHOOSE i \in 1..Len(rs) : top(i) /\ \A j \in 1..(i - 1) : ~top(j)
         IN  Some(rs[first].action_type)

compute_stats(records, owner_id, w) ==
    LET rs == Matching(records, owner_id, w)
    IN  [total_count |-> Len(rs),
         by_type |-> by_type(rs),
         by_date |-> by_date(rs),
         most_common_action |-> most_common_action(rs)]

\* ---------------------------------------------------- Dashboard Query Facade

OwnsAnything(caller, record) == TRUE

\* A record may only be read, detailed or deleted by its own owner.
Owns(caller, record) == record.user_id = caller

list_activities(records, caller, limit, offset) ==
    list_by_owner(records, caller, limit, offset)

\* Found but owned by another: identical to not-found.
get_activity(records, caller, activity_id) ==
    LET found == get_by_id(records, activity_id)
    IN  IF found # None /\ Owns(caller, found[1]) THEN found ELSE None

\* Ownership check as in get_activity, then Store.delete.
delete_activity(records, caller, activity_id) ==
    IF get_activity(records, caller, activity_id) = None
    THEN [status |-> "not-found", records |-> records]
    ELSE [status |-> "deleted", records |-> delete(records, activity_id)]

get_stats(records, caller, w) == compute_stats(records, caller, w)

\* ------------------------------------------------------------------- calls

NoDbCall ==
    [op |-> "none", caller |-> "", arg |-> <<>>, result |-> <<>>, removed |-> None]

\* Ids a caller may ask for: every id assigned so far and one never assigned.
AskedIds == 1..(MaxCreates + 1)

StoreInit ==
    /\ db = <<>>
    /\ dbNextId = 1
    /\ now = 0
    /\ lastDb = NoDbCall

\* Time passes on the server.
DbTick ==
    /\ now < MaxTime
    /\ now' = now + 1
    /\ UNCHANGED <<db, dbNextId, lastDb>>

\* POST /activities
DbCreate ==
    \E caller \in Owners, action_type \in ActionTypes :
        /\ dbNextId <= MaxCreates
        /\ db' = create(db, dbNextId, caller, action_type, now)
        /\ dbNextId' = dbNextId + 1
        /\ lastDb' = [op |-> "create", caller |-> caller, arg |-> action_type,
                      result |-> db'[Len(db')], removed |-> None]
        /\ UNCHANGED now

\* GET /activities
DbList ==
    \E caller \in Owners, limit \in 1..MaxLimit, offset \in 0..MaxCreates :
        /\ lastDb' = [op |-> "list", caller |-> caller,
                      arg |-> [limit |-> limit, offset |-> offset],
                      result |-> list_activities(db, caller, limit, offset),
                      removed |-> None]
        /\ UNCHANGED <<db, dbNextId, now>>

\* GET /activities/{id}
DbGet ==
    \E caller \in Owners, id \in AskedIds :
        /\ lastDb' = [op |-> "get", caller |-> caller, arg |-> id,
                      result |-> get_activity(db, caller, id), removed |-> None]
        /\ UNCHANGED <<db, dbNextId, now>>

\* DELETE /activities/{id}
DbDelete ==
    \E caller \in Owners, id \in AskedIds :
        LET outcome == delete_activity(db, caller, id)
        IN  /\ db' = outcome.records
            /\ lastDb' = [op |-> "delete", caller |-> caller, arg |-> id,
                          result |-> outcome.status,
                          removed |-> IF outcome.status = "deleted"
                                      THEN get_by_id(db, id) ELSE None]
            /\ UNCHANGED <<dbNextId, now>>

\* GET /stats
DbStats ==
    \E caller \in Owners, w \in Windows :
        /\ lastDb' = [op |-> "stats", caller |-> caller, arg |-> w,
                      result |-> get_stats(db, caller, w), removed |-> None]
        /\ UNCHANGED <<db, dbNextId, now>>

\* ========================================================= specifications
\* Each specification runs one part and leaves the others at rest.

\* History: the list and the cursor as they were when the list fetch called
\* last was called (kept in the specification of one call at a time).
VARIABLE atCall

NotCalled ==
    [data |-> <<>>, pagination |-> [limit |-> DEFAULT_LIMIT, offset |-> 0, hasMore |-> TRUE]]

allVars == <<vars, sessionVars, detailVars, storeVars, atCall, confirmVars>>

\* A step of one part leaves the other parts alone.
HookOnly == UNCHANGED <<sessionVars, detailVars, storeVars, atCall, confirmVars>>

\* A step of the hook that calls a list fetch.
HookListCall ==
    /\ atCall' = [data |-> activitiesState.data, pagination |-> pagination]
    /\ UNCHANGED <<sessionVars, detailVars, storeVars, confirmVars>>
SessionOnly == UNCHANGED <<vars, detailVars, storeVars, atCall, confirmVars>>
DetailOnly == UNCHANGED <<vars, sessionVars, storeVars, atCall, confirmVars>>
StoreOnly == UNCHANGED <<vars, sessionVars, detailVars, atCall, confirmVars>>
ConfirmOnly == UNCHANGED <<vars, sessionVars, detailVars, storeVars, atCall>>

NextWithin(cap) ==
    \/ Mount /\ HookOnly
    \/ Refresh(cap) /\ HookOnly
    \/ LoadMore(cap) /\ HookOnly
    \/ Create(cap) /\ HookOnly
    \/ Delete(cap) /\ HookOnly
    \/ ServerList /\ HookOnly
    \/ ServerStats /\ HookOnly
    \/ ServerCreate /\ HookOnly
    \/ ServerDelete /\ HookOnly
    \/ ListResolve /\ HookOnly
    \/ ListReject /\ HookOnly
    \/ StatsResolve /\ HookOnly
    \/ StatsReject /\ HookOnly
    \/ CreateResolve /\ HookOnly
    \/ CreateReject /\ HookOnly
    \/ DeleteResolve /\ HookOnly
    \/ DeleteReject /\ HookOnly

\* The .finally callback of the mount's validation is queued when its .then
\* or .catch callback has run: no event handler and no other continuation
\* of the document runs in between.
Settling == \E r \in meReqs : r.phase \in {"resolved", "rejected"}

SessionNext ==
    \/ ProviderMount /\ SessionOnly
    \/ MeResolve /\ SessionOnly
    \/ MeReject /\ SessionOnly
    \/ MeFinally /\ SessionOnly
    \/ (~Settling /\ LoginToken) /\ SessionOnly
    \/ (~Settling /\ LoginUser) /\ SessionOnly
    \/ (~Settling /\ LoginFail) /\ SessionOnly
    \/ (~Settling /\ Logout) /\ SessionOnly
    \/ (~Settling /\ FollowDashboardLink) /\ SessionOnly
    \/ (~Settling /\ LoadPage) /\ SessionOnly
    \/ Expire /\ SessionOnly
    \/ (~Settling /\ ApiCall) /\ SessionOnly
    \/ ApiAnswer /\ SessionOnly
    \/ (~Settling /\ ApiReturn) /\ SessionOnly
    \/ (~Settling /\ ApiFail) /\ SessionOnly

DetailNext ==
    \/ Select /\ DetailOnly
    \/ Frame /\ DetailOnly
    \/ AskDelete /\ DetailOnly
    \/ CancelDelete /\ DetailOnly
    \/ ConfirmDelete /\ DetailOnly
    \/ DeleteSettled /\ DetailOnly
    \/ Close /\ DetailOnly
    \/ TimerFires /\ DetailOnly

StoreNext ==
    \/ DbTick /\ StoreOnly
    \/ DbCreate /\ StoreOnly
    \/ DbList /\ StoreOnly
    \/ DbGet /\ StoreOnly
    \/ DbDelete /\ StoreOnly
    \/ DbStats /\ StoreOnly

HookAtRest == Init /\ store = <<>> /\ atCall = NotCalled

SessionAtRest == SessionInit /\ token = None /\ page = "login"

InitHook ==
    Init /\ SessionAtRest /\ DetailInit /\ StoreInit /\ atCall = NotCalled /\ ConfirmInit

Next == NextWithin(MaxCalls)

Spec == InitHook /\ [][Next]_allVars

\* One more call on the hook: room for a mutation between two refreshData
\* calls that overlap.
NextRapid == NextWithin(MaxCalls + 1)

SpecRapid == InitHook /\ [][NextRapid]_allVars

\* Every call made on the hook has completed: nothing is in flight.
Quiescent ==
    /\ listReqs = {}
    /\ statsReqs = {}
    /\ createReqs = {}
    /\ deleteReqs = {}
    /\ refreshCalls = {}

\* The hook called by one user who waits for each call to complete before
\* making the next one.
NextSequential ==
    \/ Mount /\ HookListCall
    \/ (Quiescent /\ Refresh(MaxCalls + 1)) /\ HookListCall
    \/ (Quiescent /\ LoadMore(MaxCalls + 1)) /\ HookListCall
    \/ (Quiescent /\ Create(MaxCalls + 1)) /\ HookOnly
    \/ (Quiescent /\ Delete(MaxCalls + 1)) /\ HookOnly
    \/ ServerList /\ HookOnly
    \/ ServerStats /\ HookOnly
    \/ ServerCreate /\ HookOnly
    \/ ServerDelete /\ HookOnly
    \/ ListResolve /\ HookOnly
    \/ ListReject /\ HookOnly
    \/ StatsResolve /\ HookOnly
    \/ StatsReject /\ HookOnly
    \/ CreateResolve /\ HookOnly
    \/ CreateReject /\ HookOnly
    \/ DeleteResolve /\ HookOnly
    \/ DeleteReject /\ HookOnly

SpecSequential == InitHook /\ [][NextSequential]_allVars

\* Records on the server when the list is paged through.
MaxPaged == 6

\* loadMore calls that reach the end of MaxPaged records, the empty page after
\* a full last page included.
PagingCalls == MaxPaged \div DEFAULT_LIMIT + 1

\* Paging through a store that does not change: the first page of the mount,
\* then loadMore after loadMore, each called when the previous fetch has
\* succeeded.  No request fails and nothing is created or deleted.
NextPaging ==
    \/ Mount /\ HookListCall
    \/ (listReqs = {} /\ LoadMore(PagingCalls)) /\ HookListCall
    \/ ServerList /\ HookOnly
    \/ ServerStats /\ HookOnly
    \/ ListResolve /\ HookOnly
    \/ StatsResolve /\ HookOnly

InitPaging ==
    /\ InitWith(MaxPaged) /\ SessionAtRest /\ DetailInit /\ StoreInit
    /\ atCall = NotCalled /\ ConfirmInit

SpecPaging == InitPaging /\ [][NextPaging]_allVars

\* The user goes on calling loadMore, the server answers and the
\* continuations run.
SpecPagingLive == SpecPaging /\ WF_allVars(NextPaging)

\* The session: the AuthProvider, the ProtectedRoute and the authenticated calls.
InitSession == SessionInit /\ HookAtRest /\ DetailInit /\ StoreInit /\ ConfirmInit

SpecSession == InitSession /\ [][SessionNext]_allVars

\* The activity detail modal.
InitDetail == DetailInit /\ HookAtRest /\ SessionAtRest /\ StoreInit /\ ConfirmInit

SpecDetail == InitDetail /\ [][DetailNext]_allVars

\* The backend: store, aggregator and facade, called by several owners.
InitStore == StoreInit /\ HookAtRest /\ SessionAtRest /\ DetailInit /\ ConfirmInit

SpecStore == InitStore /\ [][StoreNext]_allVars

\* The delete confirmation dialog of the list.
ConfirmNext ==
    \/ HandleDeleteFromList /\ ConfirmOnly
    \/ DismissConfirm /\ ConfirmOnly
    \/ ConfirmDeleteFromList /\ ConfirmOnly
    \/ ConfirmSettled /\ ConfirmOnly

InitConfirm == ConfirmInit /\ HookAtRest /\ SessionAtRest /\ DetailInit /\ StoreInit

SpecConfirm == InitConfirm /\ [][ConfirmNext]_allVars

\* ------------------------------------------------- what a step did (actions)

\* The requests a step sends.
NewListReqs == {r \in listReqs' : r.rid > nextList}
NewStatsReqs == {r \in statsReqs' : r.rid > nextStats}
NewMutationReqs == {r \in createReqs' \cup deleteReqs' : r.rid > nextMut}

\* No request of `reqs` is the one `r` was sent as.
Gone(reqs, r) == \A q \in reqs : q.rid # r.rid

\* The step runs the continuation of call `r`: the call leaves the requests
\* in flight, on its try branch (Resolved) or its catch branch (Rejected).
ListResolved(r) == r \in listReqs /\ r.phase = "ok" /\ Gone(listReqs', r)
ListRejected(r) == r \in listReqs /\ r.phase # "ok" /\ Gone(listReqs', r)
StatsResolved(r) == r \in statsReqs /\ r.phase = "ok" /\ Gone(statsReqs', r)
StatsRejected(r) == r \in statsReqs /\ r.phase # "ok" /\ Gone(statsReqs', r)
CreateResolved(r) == r \in createReqs /\ r.phase = "ok" /\ Gone(createReqs', r)
CreateRejected(r) == r \in createReqs /\ r.phase # "ok" /\ Gone(createReqs', r)
DeleteResolved(r) == r \in deleteReqs /\ r.phase = "ok" /\ Gone(deleteReqs', r)
DeleteRejected(r) == r \in deleteReqs /\ r.phase # "ok" /\ Gone(deleteReqs', r)

\* hasMore as the heuristic computes it from a page and the limit asked for.
FullPage(r) == Len(r.body) = r.limit

\* ------------------------------------------------------------------ claims

TypeOK ==
    /\ activitiesState.loading \in BOOLEAN
    /\ statsState.loading \in BOOLEAN
    /\ pagination.hasMore \in BOOLEAN
    /\ pagination.limit \in Nat /\ pagination.offset \in Nat
    /\ \A r \in listReqs : r.phase \in {"sent", "ok"}
    /\ \A r \in statsReqs : r.phase \in {"sent", "ok"}
    /\ \A r \in createReqs : r.phase \in {"sent", "ok"}
    /\ \A r \in deleteReqs : r.phase \in {"sent", "ok", "err"}
    /\ Cardinality(listReqs) <= MaxInFlight
    /\ Cardinality(statsReqs) <= MaxInFlight

\* C1. loadMore() sends a list request only when hasMore is true and no list
\* request is in flight, whichever calls (mount, refresh, loadMore) the
\* requests in flight come from.
C1_LoadMoreNoOpWhileInFlight ==
    [][\A r \in NewListReqs :
          r.site = "loadMore" => (pagination.hasMore /\ listReqs = {})]_vars

\* C2. Nothing cancels a request in flight and nothing checks that a response
\* is the latest: a call that sends a request leaves the requests in flight
\* as they are, and a list or stats response that arrives after the response
\* to a later request was applied is applied all the same, so that the list,
\* the cursor and the stats are then those of the older response.
C2_StaleResponsesApplied ==
    [][/\ (NewListReqs # {}) => listReqs \subseteq listReqs'
       /\ (NewStatsReqs # {}) => statsReqs \subseteq statsReqs'
       /\ \A r \in listReqs :
             (ListResolved(r) /\ r.rid < lastList.newest) =>
                /\ activitiesState'.data =
                      IF r.offset = 0 THEN r.body ELSE activitiesState.data \o r.body
                /\ pagination' = [limit |-> r.limit, offset |-> r.offset,
                                  hasMore |-> FullPage(r)]
                /\ lastList'.rid = r.rid
       /\ \A r \in statsReqs :
             (StatsResolved(r) /\ r.rid < lastStats.newest) =>
                /\ statsState'.data = Some(r.body)
                /\ lastStats'.rid = r.rid]_vars

\* refreshData() was called twice; the list and the stats responses of the
\* first call were applied after those of the second, nothing is in flight,
\* and the list and the stats shown are not what the server holds.
C2_Witness ==
    /\ lastList.site = "refresh" /\ lastList.newestSite = "refresh"
    /\ lastList.rid < lastList.newest
    /\ lastStats.site = "refresh" /\ lastStats.newestSite = "refresh"
    /\ lastStats.rid < lastStats.newest
    /\ listReqs = {} /\ statsReqs = {} /\ createReqs = {} /\ deleteReqs = {}
    /\ activitiesState.data # ListPage(store, pagination.limit, 0)
    /\ statsState.data # Some(ComputeStats(store))

\* C3 as stated: at most one request of each call site is in flight.
C3_SingleFlightPerCallSite ==
    /\ \A r1, r2 \in listReqs : r1.site = r2.site => r1 = r2
    /\ \A r1, r2 \in statsReqs : r1.site = r2.site => r1 = r2
    /\ Cardinality(createReqs) <= 1
    /\ Cardinality(deleteReqs) <= 1

\* C3, amended. The calls are not single-flight; what holds is that a step
\* sends at most one request of each kind, and that the mount effect runs
\* once: at most one list and one stats request of the mount are in flight.
C3_OneRequestPerCall ==
    [][/\ Cardinality(NewListReqs) <= 1
       /\ Cardinality(NewStatsReqs) <= 1
       /\ Cardinality(NewMutationReqs) <= 1
       /\ Cardinality({r \in listReqs' : r.site = "mount"}) <= 1
       /\ Cardinality({r \in statsReqs' : r.site = "mount"}) <= 1]_vars

\* The mount's list request is in flight together with the list request of a
\* refreshData() call, and so are the two stats requests.
C3_Witness ==
    /\ {r.site : r \in listReqs} = {"mount", "refresh"}
    /\ {r.site : r \in statsReqs} = {"mount", "refresh"}

\* C4. Once a list response has been applied, hasMore is true iff the page
\* applied last held exactly as many records as its request's limit.
C4_HasMoreIffFullPage ==
    lastList.rid # 0 => (pagination.hasMore <=> lastList.len = lastList.limit)

\* A short, non-empty page was applied last, after a refresh reset the offset.
C4_Witness ==
    /\ lastList.rid # 0
    /\ 0 < lastList.len /\ lastList.len < lastList.limit
    /\ ~pagination.hasMore
    /\ pagination.offset # lastList.offset

\* C5. The mount effect and refreshData() ask for offset 0 with the limit of
\* the cursor; a successful fetch at offset 0 makes the list the returned
\* page, whatever it held, the cursor {limit, 0, count = limit}, loading
\* false and error null.
C5_FirstPageReplaces ==
    [][/\ \A r \in NewListReqs :
             r.site \in {"mount", "refresh"} =>
                r.offset = 0 /\ r.limit = pagination.limit
       /\ \A r \in listReqs :
             (ListResolved(r) /\ r.offset = 0) =>
                /\ activitiesState' =
                      [data |-> r.body, loading |-> FALSE, error |-> None]
                /\ pagination' = [limit |-> r.limit, offset |-> 0,
                                  hasMore |-> FullPage(r)]]_vars

\* A first page shorter than the list held before has replaced it.
C5_Witness ==
    /\ lastList.offset = 0 /\ lastList.rid # 0
    /\ lastList.prevLen > lastList.len
    /\ Len(activitiesState.data) = lastList.len
    /\ ~activitiesState.loading

\* C6. loadMore(), when it fetches, asks for offset + limit with the limit of
\* the cursor; on success the page is appended to the list as it is then,
\* the cursor's offset is the one asked for and hasMore is count = limit.
C6_LoadMoreAppends ==
    [][/\ \A r \in NewListReqs :
             r.site = "loadMore" =>
                /\ r.offset = pagination.offset + pagination.limit
                /\ r.limit = pagination.limit
       /\ \A r \in listReqs :
             (ListResolved(r) /\ r.site = "loadMore") =>
                /\ activitiesState'.data = activitiesState.data \o r.body
                /\ pagination' = [limit |-> r.limit, offset |-> r.offset,
                                  hasMore |-> FullPage(r)]]_vars

\* A non-empty page was appended to a non-empty list.
C6_Witness ==
    /\ lastList.site = "loadMore"
    /\ lastList.prevLen > 0 /\ lastList.len > 0
    /\ Len(activitiesState.data) = lastList.prevLen + lastList.len
    /\ pagination.offset = lastList.offset

\* C7. A successful create puts the new record first in the list and a
\* successful delete(id) removes every entry with that id; the other
\* entries, in their order, and the cursor stay, and one stats request is
\* sent, and nothing else.
C7_MutationSuccess ==
    [][/\ \A r \in createReqs :
             CreateResolved(r) =>
                /\ activitiesState'.data = <<r.id>> \o activitiesState.data
                /\ pagination' = pagination
                /\ Cardinality(NewStatsReqs) = 1 /\ NewListReqs = {}
       /\ \A r \in deleteReqs :
             DeleteResolved(r) =>
                /\ activitiesState'.data =
                      SelectSeq(activitiesState.data, LAMBDA x : x # r.id)
                /\ pagination' = pagination
                /\ Cardinality(NewStatsReqs) = 1 /\ NewListReqs = {}]_vars

\* A create and a delete have both succeeded: the stats requests they sent
\* are in flight, and the list still holds entries.
C7_Witness ==
    /\ {r.site : r \in statsReqs} = {"create", "delete"}
    /\ activitiesState.data # <<>>

\* C8. A failed create or delete leaves the list, the cursor and the stats as
\* they were, sets the activities error, returns null or false, and sends
\* no request (no stats refetch, no retry).
C8_MutationFailure ==
    [][\A r \in createReqs \cup deleteReqs :
          (CreateRejected(r) \/ DeleteRejected(r)) =>
             /\ activitiesState' =
                   [activitiesState EXCEPT !.error = Some(RejectMsg(r))]
             /\ pagination' = pagination
             /\ statsState' = statsState
             /\ lastResult'.value = IF r \in createReqs THEN "null" ELSE "false"
             /\ NewStatsReqs = {} /\ NewListReqs = {} /\ NewMutationReqs = {}]_vars

\* A delete of a record that was already gone has failed with the server's
\* not-found message, and the list and the stats are still there.
C8_Witness ==
    /\ lastResult.op = "delete" /\ lastResult.value = "false"
    /\ activitiesState.error = Some("Activity not found")
    /\ activitiesState.data # <<>>
    /\ statsState.data # None
    /\ statsReqs = {}

\* C9. refreshData() sets the cursor's offset to 0 and sends a first-page list
\* request and a stats request in the same step; its promise settles only
\* when both fetches have ended, so that while one is in flight the call is
\* pending; and when one of the two has failed the other's response is still
\* applied.
C9_RefreshConcurrent ==
    [][/\ \A c \in refreshCalls' \ refreshCalls :
             (c.list = "pending" /\ c.stats = "pending") =>
                /\ pagination'.offset = 0
                /\ \E r \in NewListReqs :
                      /\ r.rid = c.listRid /\ r.phase = "sent"
                      /\ r.offset = 0 /\ r.limit = pagination.limit
                /\ \E r \in NewStatsReqs : r.rid = c.statsRid /\ r.phase = "sent"
       /\ \A r \in listReqs' :
             r.site = "refresh" => \E c \in refreshCalls' : c.listRid = r.rid
       /\ \A r \in statsReqs' :
             r.site = "refresh" => \E c \in refreshCalls' : c.statsRid = r.rid
       /\ \A c \in refreshCalls :
             /\ \A r \in statsReqs :
                   (c.list = "err" /\ r.rid = c.statsRid /\ StatsResolved(r)) =>
                      statsState'.data = Some(r.body)
             /\ \A r \in listReqs :
                   (c.stats = "err" /\ r.rid = c.listRid /\ ListResolved(r)) =>
                      activitiesState'.data = r.body]_vars

\* The list fetch of a refreshData() call has failed and the error is shown;
\* the call is still pending on its stats fetch, whose response has arrived
\* at the client and is about to be applied.
C9_Witness ==
    \E c \in refreshCalls :
        /\ c.list = "err" /\ c.stats = "pending"
        /\ activitiesState.error # None
        /\ \E r \in statsReqs : r.rid = c.statsRid /\ r.phase = "ok"

\* C10. A failed list or stats fetch sets that resource's error and clears its
\* loading flag and sends no request; requests are sent only by the mount
\* effect, by a call on the hook, or by a mutation that succeeded.
C10_FailureNoRetry ==
    [][/\ \A r \in listReqs :
             ListRejected(r) =>
                /\ activitiesState'.error = Some(ErrMsg)
                /\ ~activitiesState'.loading
                /\ NewListReqs = {} /\ NewStatsReqs = {} /\ NewMutationReqs = {}
       /\ \A r \in statsReqs :
             StatsRejected(r) =>
                /\ statsState'.error = Some(ErrMsg)
                /\ ~statsState'.loading
                /\ NewListReqs = {} /\ NewStatsReqs = {} /\ NewMutationReqs = {}
       /\ (NewListReqs # {} \/ NewMutationReqs # {}) =>
             (calls' = calls + 1 \/ (~mounted /\ mounted'))
       /\ (NewStatsReqs # {}) =>
             \/ calls' = calls + 1
             \/ ~mounted /\ mounted'
             \/ \E r \in createReqs : CreateResolved(r)
             \/ \E r \in deleteReqs : DeleteResolved(r)]_vars

\* Both fetches have failed and nothing is in flight: both errors are shown,
\* neither resource is loading.
C10_Witness ==
    /\ activitiesState.error = Some(ErrMsg) /\ ~activitiesState.loading
    /\ statsState.error = Some(ErrMsg) /\ ~statsState.loading
    /\ listReqs = {} /\ statsReqs = {} /\ createReqs = {} /\ deleteReqs = {}
    /\ calls > 0

\* C11. Every authenticated call (create, list, get, stats, delete) made
\* with an absent or invalid credential ends with a 401: the stored token is
\* cleared, the document is at the login page, and the call fails with an
\* error instead of returning data.
C11_BadCredentialYields401 ==
    [][(lastApi'.rid # lastApi.rid /\ lastApi'.cred \in {"absent", "invalid"})
          => /\ lastApi'.status = 401
             /\ lastApi'.outcome = "error"
             /\ token' = None
             /\ page' = "login"]_allVars


\* C12. ProtectedRoute never renders its children while the auth state is
\* loading or there is no user, and shows the loading indicator while loading;
\* it has redirected to /login only with loading false and no user, and the
\* dashboard page is never left standing in that state.
C12_ProtectedRouteGuards ==
    /\ rendered = "children" => (~auth.loading /\ auth.user # None)
    /\ (page = "dashboard" /\ auth.loading) => rendered = "spinner"
    /\ pushed => (~auth.loading /\ auth.user = None /\ rendered = "null")
    /\ page = "dashboard" => (auth.loading \/ auth.user # None)

\* The signed-in user's dashboard content had rendered; the user is gone,
\* the route rendered nothing and has redirected to the login page.
C12_Witness ==
    /\ content
    /\ pushed
    /\ page = "login"
    /\ rendered = "null"

\* C13. When an onDelete call of the modal resolves, a close (onClose after
\* the animation) is started if and only if it resolved true.  A delete that
\* resolved false leaves the activity, the confirmation and the timers as
\* they were, and the confirmation's buttons, where shown, can be clicked
\* again.  The timer a successful delete started closes the modal.
C13_CloseIffDeleted ==
    [][/\ (lastOnDelete'.cid # lastOnDelete.cid) =>
            /\ ~isDeleting'
            /\ (timers'.delete = timers.delete + 1) <=> lastOnDelete'.success
            /\ timers'.user = timers.user
            /\ lastOnDelete'.success => (~showDeleteConfirm' /\ ~isVisible')
            /\ ~lastOnDelete'.success =>
                  /\ timers' = timers
                  /\ selected' = selected
                  /\ showDeleteConfirm' = showDeleteConfirm
                  /\ (selected # None /\ showDeleteConfirm) =>
                        (Clickable("Cancel") /\ Clickable("Delete"))'
       /\ (timers'.delete > timers.delete) =>
            (lastOnDelete'.cid # lastOnDelete.cid /\ lastOnDelete'.success)
       /\ (timers'.delete < timers.delete) => selected' = None]_allVars

\* A delete resolved false: the modal is open, the confirmation is shown and
\* its buttons can be clicked, and no close is pending.
C13_Witness ==
    /\ lastOnDelete.cid # 0
    /\ ~lastOnDelete.success
    /\ selected = Some(lastOnDelete.id)
    /\ showDeleteConfirm
    /\ Clickable("Cancel") /\ Clickable("Delete")
    /\ timers = [user |-> 0, delete |-> 0]

\* C14. While an onDelete call is in flight it is the only one, isDeleting is
\* set, and neither the confirming Delete nor the Cancel button can be clicked.
C14_ButtonsDisabledWhileDeleting ==
    onDeleteCalls # {} =>
        /\ Cardinality(onDeleteCalls) = 1
        /\ isDeleting
        /\ ~Clickable("Delete")
        /\ ~Clickable("Cancel")

\* The second delete of the modal is in flight, confirmed after the first
\* had resolved; the confirmation is on display with both buttons disabled.
C14_Witness ==
    /\ nextDel = 2
    /\ Cardinality(onDeleteCalls) = 1
    /\ Footer(selected, showDeleteConfirm, isDeleting) =
           {[name |-> "Cancel", enabled |-> FALSE], [name |-> "Delete", enabled |-> FALSE]}

\* C15. The list shows the Load More button exactly when hasMore is true and
\* loading is false, whatever activities it is given, an empty array included.
C15_LoadMoreShownIffHasMore ==
    ShownList.loadMore <=> (pagination.hasMore /\ ~activitiesState.loading)

\* ---------------------------------------------------- claims on the backend

\* The records of an owner, and the place of one of them in the owner's
\* listing: the number of the owner's records that are more recent, or as
\* recent and inserted earlier.
RecordsOf(owner) == {r \in Range(db) : r.user_id = owner}

PlaceOf(r) ==
    Cardinality({s \in RecordsOf(r.user_id) :
                    \/ s.created_at > r.created_at
                    \/ s.created_at = r.created_at /\ s.id < r.id})

RECURSIVE PagesFrom(_, _, _)
\* The pages at offsets offset, offset + limit, ... one after the other.
PagesFrom(owner, limit, offset) ==
    IF offset > Len(db) THEN <<>>
    ELSE list_by_owner(db, owner, limit, offset) \o PagesFrom(owner, limit, offset + limit)

\* C16. For every owner, limit >= 1 and offset >= 0, list_by_owner returns
\* exactly the records at positions offset .. offset+limit-1 of the owner's
\* records, most recent first and equal timestamps in identifier order; the
\* pages at offsets 0, limit, 2*limit, ... share no record and together are
\* the owner's whole list; of 3 records with limit 2 the first page has the 2
\* most recent and hasMore true, the second the remaining one and hasMore
\* false.
C16_PagesAreSlicesOfTheOwnersList ==
    \A owner \in Owners, limit \in 1..MaxLimit :
        LET whole == PagesFrom(owner, limit, 0)
            first == list_by_owner(db, owner, limit, 0)
            second == list_by_owner(db, owner, limit, limit)
        IN  /\ \A offset \in 0..MaxCreates :
                LET slice == list_by_owner(db, owner, limit, offset)
                IN  /\ \A i \in 1..Len(slice) :
                           slice[i] \in RecordsOf(owner) /\ PlaceOf(slice[i]) = offset + i - 1
                    /\ Len(slice) = Cardinality({r \in RecordsOf(owner) :
                                       PlaceOf(r) \in offset..(offset + limit - 1)})
            /\ Len(whole) = Cardinality(RecordsOf(owner))
            /\ Range(whole) = RecordsOf(owner)
            /\ \A i \in 1..Len(whole) : PlaceOf(whole[i]) = i - 1
            /\ (Cardinality(RecordsOf(owner)) = 3 /\ limit = 2) =>
                   /\ Len(first) = 2
                   /\ ListSuccessPagination(limit, 0, first).hasMore
                   /\ Len(second) = 1
                   /\ ~ListSuccessPagination(limit, limit, second).hasMore

\* An owner has three records, two of them with one timestamp, another owner
\* has none of them, and the second page of two was just listed.
C16_Witness ==
    /\ \E owner \in Owners :
          /\ Cardinality(RecordsOf(owner)) = 3
          /\ \E r, s \in RecordsOf(owner) : r.id # s.id /\ r.created_at = s.created_at
          /\ \E r, s \in RecordsOf(owner) : r.created_at # s.created_at
          /\ lastDb.op = "list" /\ lastDb.caller = owner
          /\ lastDb.arg = [limit |-> 2, offset |-> 2]
          /\ Len(lastDb.result) = 1

\* C17. Whatever creates and deletes the owners have made, list_activities
\* for a caller returns no record of another owner, and get_stats for the
\* caller counts the caller's records only: its total_count is the number of
\* the caller's records in the window and its buckets are types and dates of
\* the caller's records.
C17_CallersSeeTheirOwnRecordsOnly ==
    \A caller \in Owners :
        /\ \A limit \in 1..MaxLimit, offset \in 0..MaxCreates :
               \A r \in Range(list_activities(db, caller, limit, offset)) :
                   r.user_id = caller
        /\ \A w \in Windows :
               LET stats == get_stats(db, caller, w)
                   counted == {r \in Range(db) :
                                  /\ r.user_id = caller
                                  /\ w.start_date # None =>
                                         DayOf(r.created_at) >= w.start_date[1]
                                  /\ w.end_date # None =>
                                         DayOf(r.created_at) <= w.end_date[1]}
               IN  /\ stats.total_count = Cardinality(counted)
                   /\ DOMAIN stats.by_type = {r.action_type : r \in counted}
                   /\ DOMAIN stats.by_date = {DayOf(r.created_at) : r \in counted}

\* A caller with one record asked for the stats of all time while another
\* owner holds two records, one of them more recent than the caller's.
C17_Witness ==
    /\ lastDb.op = "stats"
    /\ lastDb.arg = NoWindow
    /\ lastDb.result.total_count = 1
    /\ Cardinality(RecordsOf(lastDb.caller)) = 1
    /\ Len(db) = 3
    /\ \E r \in RecordsOf(lastDb.caller), s \in Range(db) :
           s.user_id # lastDb.caller /\ s.created_at > r.created_at
    /\ Len(list_activities(db, lastDb.caller, 2, 0)) = 1

\* The record with this id is in the store and belongs to another owner.
ForeignTo(caller, id) == \E r \in Range(db) : r.id = id /\ r.user_id # caller

\* No record has this id.
Absent(id) == \A r \in Range(db) : r.id # id

\* C18. get_activity and delete_activity on a record that exists but belongs
\* to another owner end as they do for an id no record has: not-found, the
\* record neither returned nor deleted, the store as it was.
C18_ForeignIsNotFound ==
    [][\A caller \in Owners, id \in AskedIds :
          (/\ lastDb'.op \in {"get", "delete"}
           /\ lastDb'.caller = caller
           /\ lastDb'.arg = id
           /\ ForeignTo(caller, id))
          => /\ db' = db
             /\ lastDb'.op = "get" =>
                    /\ lastDb'.result = None
                    /\ \A missing \in AskedIds :
                           Absent(missing) =>
                               lastDb'.result = get_activity(db, caller, missing)
             /\ lastDb'.op = "delete" =>
                    /\ lastDb'.result = "not-found"
                    /\ \A missing \in AskedIds :
                           Absent(missing) =>
                               lastDb'.result =
                                   delete_activity(db, caller, missing).status
      ]_allVars

\* A caller asked to delete a record of another owner; the record is still
\* in the store.
C18_Witness ==
    /\ lastDb.op = "delete"
    /\ ForeignTo(lastDb.caller, lastDb.arg)
    /\ RecordsOf(lastDb.caller) # {}

RECURSIVE SumOf(_)
\* The sum of all values of a bucket map.
SumOf(counts) ==
    IF DOMAIN counts = {} THEN 0
    ELSE LET k == CHOOSE x \in DOMAIN counts : TRUE
         IN  counts[k] + SumOf([x \in DOMAIN counts \ {k} |-> counts[x]])

\* C19. For every owner and every filter window (no dates, start only, end
\* only, both) total_count equals the sum of the by_type values and the sum
\* of the by_date values, and every bucket present counts at least 1.
C19_CountsAddUp ==
    \A owner \in Owners, w \in Windows :
        LET stats == compute_stats(db, owner, w)
        IN  /\ stats.total_count = SumOf(stats.by_type)
            /\ stats.total_count = SumOf(stats.by_date)
            /\ \A t \in DOMAIN stats.by_type : stats.by_type[t] >= 1
            /\ \A d \in DOMAIN stats.by_date : stats.by_date[d] >= 1

\* An owner with records of one type on two days asked for the stats from
\* the second day on; a record of the first day is left out, and the other
\* type has no bucket.
C19_Witness ==
    /\ lastDb.op = "stats"
    /\ lastDb.arg.start_date # None /\ lastDb.arg.end_date = None
    /\ lastDb.result.total_count >= 1
    /\ lastDb.result.total_count < Cardinality(RecordsOf(lastDb.caller))
    /\ Cardinality(DOMAIN lastDb.result.by_type) = 1
    /\ lastDb.result = compute_stats(db, lastDb.caller, lastDb.arg)

\* The step is a successful delete_activity of record r by its owner.
Deletes(r) ==
    /\ r \in Range(db)
    /\ lastDb' # lastDb
    /\ lastDb'.op = "delete"
    /\ lastDb'.caller = r.user_id
    /\ lastDb'.arg = r.id
    /\ lastDb'.result = "deleted"

\* A bucket is 1 lower, and gone when it held 1.
OneLower(before, after, key) ==
    /\ key \in DOMAIN before
    /\ IF before[key] = 1 THEN key \notin DOMAIN after
       ELSE key \in DOMAIN after /\ after[key] = before[key] - 1
    /\ \A other \in DOMAIN before \ {key} :
           other \in DOMAIN after /\ after[other] = before[other]

\* The summary after the delete of r, against the one before it.
LoweredBy(r, before, after) ==
    /\ after.total_count = before.total_count - 1
    /\ OneLower(before.by_type, after.by_type, r.action_type)
    /\ OneLower(before.by_date, after.by_date, DayOf(r.created_at))

\* The creation date of r is within the window.
Covers(w, r) ==
    /\ w.start_date # None => w.start_date[1] <= DayOf(r.created_at)
    /\ w.end_date # None => DayOf(r.created_at) <= w.end_date[1]

\* C20 as stated: deleting one of the caller's records and fetching the stats
\* again with the same filter gives a total_count 1 lower and the record's
\* by_type and by_date buckets 1 lower, absent when the record was their only
\* contributor, whatever the filter.
C20_DeleteLowersStatsByOne ==
    [][\A r \in Range(db) :
          Deletes(r) =>
              \A w \in Windows :
                  LoweredBy(r, get_stats(db, r.user_id, w),
                               get_stats(db', r.user_id, w))
      ]_allVars

\* C20, amended: the same for every filter window that holds the record's
\* creation date; with a window that does not hold it the summary is as
\* before.
C20_DeleteLowersStatsOfItsWindow ==
    [][\A r \in Range(db) :
          Deletes(r) =>
              \A w \in Windows :
                  LET before == get_stats(db, r.user_id, w)
                      after == get_stats(db', r.user_id, w)
                  IN  IF Covers(w, r)
                      THEN LoweredBy(r, before, after)
                      ELSE /\ after.total_count = before.total_count
                           /\ after.by_type = before.by_type
                           /\ after.by_date = before.by_date
      ]_allVars

\* A caller deleted the only record of its type and of its day among the
\* caller's three records.
C20_Witness ==
    /\ lastDb.op = "delete"
    /\ lastDb.removed # None
    /\ Cardinality(RecordsOf(lastDb.caller)) = 2
    /\ \A r \in RecordsOf(lastDb.caller) :
           /\ r.action_type # lastDb.removed[1].action_type
           /\ DayOf(r.created_at) # DayOf(lastDb.removed[1].created_at)
    /\ lastDb.removed[1] \notin Range(db)

\* The place of the first record of a type among the records aggregated.
FirstMet(rs, t) ==
    CHOOSE i \in 1..Len(rs) :
        rs[i].action_type = t /\ \A j \in 1..(i - 1) : rs[j].action_type # t

\* C21. most_common_action is the action_type with the highest count in
\* by_type; of several types with that count it is the one met first in
\* record order; it is null if and only if total_count is 0.  Three records
\* of types login, login, click give total_count 3, by_type {login: 2,
\* click: 1} and most_common_action login.
C21_MostCommonAction ==
    \A owner \in Owners, w \in Windows :
        LET stats == compute_stats(db, owner, w)
            rs == Matching(db, owner, w)
            winner == stats.most_common_action[1]
        IN  /\ stats.most_common_action = None <=> stats.total_count = 0
            /\ stats.most_common_action # None =>
                   /\ winner \in DOMAIN stats.by_type
                   /\ \A t \in DOMAIN stats.by_type :
                          /\ stats.by_type[winner] >= stats.by_type[t]
                          /\ (t # winner /\ stats.by_type[t] = stats.by_type[winner])
                                 => FirstMet(rs, winner) < FirstMet(rs, t)
            /\ (/\ w = NoWindow
                /\ Len(rs) = 3
                /\ rs[1].action_type = "login"
                /\ rs[2].action_type = "login"
                /\ rs[3].action_type = "click")
               => /\ stats.total_count = 3
                  /\ stats.by_type = [t \in {"login", "click"} |->
                                         IF t = "login" THEN 2 ELSE 1]
                  /\ stats.most_common_action = Some("login")

\* A caller whose records are of two types, as many of each, asked for the
\* stats: the type of the older record is the most common action.
C21_Witness ==
    /\ lastDb.op = "stats"
    /\ lastDb.arg = NoWindow
    /\ lastDb.result = compute_stats(db, lastDb.caller, NoWindow)
    /\ Cardinality(DOMAIN lastDb.result.by_type) = 2
    /\ \A t \in DOMAIN lastDb.result.by_type : lastDb.result.by_type[t] = 1
    /\ lastDb.result.most_common_action =
           Some(OwnedBy(db, lastDb.caller)[1].action_type)

\* No two entries of the list have the same id.
NoRepeats(s) == \A i, j \in 1..Len(s) : s[i] = s[j] => i = j

\* C22. After any sequence of completed operations of the client cache
\* (first-page fetch, loadMore, create, delete, refresh) the accumulated list
\* holds no two entries with the same id.
C22_NoDuplicateIds ==
    (mounted /\ Quiescent) => NoRepeats(activitiesState.data)

\* C23. A list fetch that fails leaves the accumulated list and the whole
\* cursor {limit, offset, hasMore} as they were before the call, whether the
\* mount effect, loadMore or refresh made it; so after a failed refresh the
\* next loadMore asks for the page after the records held.
C23_FailedFetchLeavesListAndCursor ==
    [][\A r \in listReqs :
          ListRejected(r) =>
              /\ activitiesState'.data = atCall.data
              /\ pagination' = atCall.pagination
      ]_allVars

\* C24. Against a store that does not change, after a first page that
\* succeeded and loadMore called again and again, each time the previous one
\* has succeeded, hasMore becomes false in the end, and when it is false the
\* accumulated list is the caller's whole list, most recent first, with no
\* record missing or repeated.
C24_PagingReachesTheEnd ==
    /\ <>(~pagination.hasMore)
    /\ [](~pagination.hasMore =>
              /\ activitiesState.data = store
              /\ NoRepeats(activitiesState.data))

\* Five records were paged through with two loadMore calls: the last page
\* was short and the list is complete.
C24_Witness ==
    /\ ~pagination.hasMore
    /\ Len(store) = 5
    /\ calls = 2
    /\ lastList.site = "loadMore"
    /\ lastList.len = 1
    /\ activitiesState.data = store

\* C25. activitiesLoading is true in every state with a list request in
\* flight and statsLoading in every state with a stats request in flight;
\* once the mount effect has run, each flag is false when no request of its
\* kind is outstanding.
C25_LoadingIffInFlight ==
    /\ listReqs # {} => activitiesState.loading
    /\ statsReqs # {} => statsState.loading
    /\ (mounted /\ listReqs = {}) => ~activitiesState.loading
    /\ (mounted /\ statsReqs = {}) => ~statsState.loading

\* C26. In every state of the AuthProvider, however the token validation of
\* the mount effect interleaves with login and logout calls, a user that is
\* not null comes with a token state that is not null and equals the token
\* stored in localStorage.
C26_UserImpliesStoredToken ==
    auth.user # None => (auth.token # None /\ auth.token = token)

\* The step ends the loading of the AuthProvider.
LoadingEnds == auth.loading /\ ~auth'.loading

\* C27. After the mount the loading flag becomes false in every case: with
\* no stored token without any request, user and token null; with a stored
\* token once getCurrentUser has settled, with the user set when it
\* succeeded, and when it failed with the token removed from localStorage,
\* the token state null and the user null.
C27_LoadingEndsAsItShould ==
    [][LoadingEnds =>
          \/ /\ ~booted /\ token = None
             /\ meReqs' = {}
             /\ auth'.user = None /\ auth'.token = None
          \/ /\ \E r \in meReqs : r.kind = "init" /\ r.phase = "resolved"
             /\ auth'.user # None
          \/ /\ \E r \in meReqs : r.kind = "init" /\ r.phase = "rejected"
             /\ token' = None
             /\ auth'.token = None /\ auth'.user = None
      ]_allVars

\* The step is a call of an authenticated API function.
ApiCalled == nextApi' = nextApi + 1

\* C28. With no token in localStorage every authenticated API function
\* (createActivity, getActivities, getActivity, getActivityStats,
\* deleteActivity) fails with the 'Authentication required' error before a
\* request is sent, leaves localStorage as it is and redirects nowhere; the
\* hook's catch branch makes it an ordinary error message.
C28_NoTokenFailsBeforeTheRequest ==
    [][(ApiCalled /\ token = None) =>
          /\ apiReqs' = apiReqs
          /\ token' = token
          /\ page' = page /\ ~pushed'
          /\ auth' = auth
          /\ lastApi'.rid = nextApi'
          /\ lastApi'.status = 0
          /\ lastApi'.outcome = "error"
          /\ lastApi'.message = AuthRequiredMsg
          /\ \A loaded \in {<<>>, <<1>>} :
                 FetchFailureState([data |-> loaded, loading |-> TRUE, error |-> None],
                                   lastApi'.message)
                     = [data |-> loaded, loading |-> FALSE,
                        error |-> Some("Authentication required. Please log in.")]
      ]_allVars

\* Every one of the five functions can be the one called with no token stored.
C28_Witness ==
    /\ token = None
    /\ lastApi.rid = nextApi
    /\ lastApi.cred = "absent"
    /\ lastApi.op = "delete"
    /\ apiReqs = {}
    /\ content

\* The step hands the response of call r to handleAuthenticatedResponse.
Returned(r) ==
    /\ r \in apiReqs
    /\ r.phase = "answered"
    /\ lastApi' # lastApi
    /\ lastApi'.rid = r.rid

\* C29. An error response other than 401 (404 not-found, 422 validation)
\* from an authenticated endpoint becomes a thrown error that carries the
\* detail message of the response, the stored token is not removed and there
\* is no redirect to login; a 204 response resolves with no body.
C29_ErrorsOtherThan401 ==
    [][\A r \in apiReqs :
          Returned(r) =>
              /\ (r.status # 401 /\ ~(200 <= r.status /\ r.status <= 299)) =>
                     /\ lastApi'.outcome = "error"
                     /\ (r.body.kind = "json" /\ r.body.detail \notin {None, Some("")})
                            => lastApi'.message = r.body.detail[1]
                     /\ token' = token
                     /\ page' = page /\ ~pushed'
                     /\ auth' = auth /\ booted' = booted
              /\ r.status = 204 =>
                     /\ lastApi'.outcome = "data"
                     /\ lastApi'.value = "undefined"
                     /\ token' = token
                     /\ page' = page /\ ~pushed'
      ]_allVars

\* A delete was answered 404 with the server's detail: the error carries it,
\* the token is still stored and the dashboard still shown.
C29_Witness ==
    /\ lastApi.op = "delete"
    /\ lastApi.status = 404
    /\ lastApi.outcome = "error"
    /\ lastApi.message = NotFoundMsg
    /\ token # None
    /\ page = "dashboard"
    /\ rendered = "children"

\* The step is a click on the dialog's Delete button that calls deleteActivity(id).
Confirms(id) == \E c \in confirming' \ confirming : c.id = id

\* C30. From the list's delete confirmation dialog at most one delete
\* request is issued per confirmed activity: the confirm action cannot be
\* triggered again while the first delete of the id is in flight, and the
\* dialog is dismissed once the delete resolves.
C30_OneDeletePerConfirmation ==
    [][/\ \A id \in 1..MaxShown :
              Confirms(id) => \A c \in confirming : c.id # id
       /\ lastConfirm' # lastConfirm => deleteConfirmId' = None
      ]_allVars
====
